---- MODULE Spec2Model ----
(***************************************************************************)
(* Model of src/index.js: the MinHeap class (a bounded top-N store kept as *)
(* an array-backed binary min-heap on `score`), the leaderboard file that  *)
(* persists it, and the three routes that use it.                          *)
(*                                                                         *)
(* JavaScript runs one callback to completion before the next starts, so   *)
(* while a handler is inside insert (pc is "up", "down" or "added") the    *)
(* only enabled action is that handler's next step.  The steps are kept    *)
(* apart so that the array states inside an insert are states of the       *)
(* model.                                                                  *)
(***************************************************************************)
EXTENDS Integers, Sequences, FiniteSets

VARIABLES
  heap,      \* leaderboard.heap: the array, element 0 of the code is heap[1]
  maxSize,   \* leaderboard.maxSize
  file,      \* leaderboard.json on disk
  pc,        \* where the process is: "start", "replay", "up", "down", "added", "idle"
  caller,    \* who called the insert that is sifting: "load", "add" or "none"
  idx,       \* the index i of the running heapifyUp / heapifyDown (0-based, as in the code)
  data,      \* the array parsed by loadLeaderboard
  k,         \* how many elements of data forEach has passed to insert and got back from
  resp,      \* the last HTTP response sent
  inserted,  \* history: every value passed to insert since construction or the last clear
  present,   \* history: for each of them, the identities in the heap when it was passed
  lastIns,   \* history: the heap before the last insert call, its argument, how it ended,
             \* and the number of swaps it made
  lastSave,  \* history: how saveLeaderboard ended since the last insert of a request:
             \* "none" (not called), "ok", "failed"
  cleared,   \* history: clear_leaderboard has run
  fails,     \* history: number of failed file writes so far
  calls,     \* history: number of insert calls so far
  maxSize0   \* history: the capacity given to the constructor

vars == <<heap, maxSize, file, pc, caller, idx, data, k, resp, inserted, present,
          lastIns, lastSave, cleared, fails, calls, maxSize0>>

---------------------------------------------------------------------------
(* Bounds of the model *)

\* capacities tried for new MinHeap(maxSize); the program passes 100 (line 85)
MaxCap == 4
\* insert calls in one run of the process
MaxInserts == 4
\* file writes that may fail in one run
MaxFails == 1

(* Program constants *)
MinScore == 0
MaxScore == 100

---------------------------------------------------------------------------
(* Values *)

\* A heap element: the object { name, score } with its identity seq (the
\* ordinal of the insert call that brought it), or the JSON value null.
Obj(name, nameT, score, seq) ==
  [t |-> "object", name |-> name, nameT |-> nameT, score |-> score, seq |-> seq]
Null(seq) ==
  [t |-> "null", name |-> "", nameT |-> "null", score |-> 0, seq |-> seq]

\* The JSON text of one element: the identity of the object is not written.
JsonOf(e) == [t |-> e.t, name |-> e.name, nameT |-> e.nameT, score |-> e.score]
\* The object JSON.parse builds for one element; seq is its new identity.
FromJson(j, seq) ==
  [t |-> j.t, name |-> j.name, nameT |-> j.nameT, score |-> j.score, seq |-> seq]

\* a JSON.stringify that leaves the last element of the array out
StringifyDropsLast(s) == [n \in 1..(IF Len(s) = 0 THEN 0 ELSE Len(s) - 1) |-> JsonOf(s[n])]

Stringify(s) == [n \in 1..Len(s) |-> JsonOf(s[n])]

J(name, score) == [t |-> "object", name |-> name, nameT |-> "string", score |-> score]
JNull == [t |-> "null", name |-> "", nameT |-> "null", score |-> 0]

FileAbsent == [kind |-> "absent", data |-> <<>>]
FileUnreadable == [kind |-> "unreadable", data |-> <<>>]  \* readFileSync throws
FileInvalid == [kind |-> "invalid", data |-> <<>>]   \* not JSON: JSON.parse throws
FileObject == [kind |-> "object", data |-> <<>>]     \* JSON, but not an array
FileArray(d) == [kind |-> "array", data |-> d]

\* The files the process may find at start.
StartFiles ==
  { FileAbsent, FileUnreadable, FileInvalid, FileObject,
    FileArray(<<>>),
    FileArray(<<J("a", 100), J("b", 50)>>),
    FileArray(<<J("a", 0), J("b", 50), J("a", 50), J("a", 100)>>),
    FileArray(<<JNull>>),
    FileArray(<<J("a", 50), JNull, J("b", 50)>>) }

\* A request body { name, score }: each field with its JavaScript type.
Body(name, nameT, score, scoreT) ==
  [name |-> name, nameT |-> nameT, score |-> score, scoreT |-> scoreT]

Bodies ==
  { Body("a", "string", MinScore, "number"),
    Body("a", "string", 50, "number"),
    Body("b", "string", 50, "number"),
    Body("7", "number", MaxScore, "number"),    \* name: 7
    Body("0", "number", 50, "number"),          \* name: 0
    Body("", "string", 50, "number"),           \* name: ""
    Body("", "undefined", 50, "number"),        \* no name
    Body("a", "string", MinScore - 1, "number"),
    Body("a", "string", MaxScore + 1, "number"),
    Body("a", "string", 50, "string"),          \* score: "50"
    Body("a", "string", 0, "undefined") }       \* no score

Response(op, status, scores, position) ==
  [op |-> op, status |-> status, scores |-> scores, position |-> position]
NoResponse == Response("none", 0, <<>>, 0)

NoInsert == [pre |-> <<>>, arg |-> Null(0), status |-> "none", swaps |-> 0]

---------------------------------------------------------------------------
(* class MinHeap *)

MinHeap(size) == [heap |-> <<>>, maxSize |-> size]

parent(i) == (i - 1) \div 2
leftChild(i) == 2 * i + 1
rightChild(i) == 2 * i + 2

\* this.heap[i], i counted from 0 as in the code
At(h, i) == h[i + 1]
\* reading x.score raises a TypeError when x is null
IsNull(x) == x.t = "null"

\* a swap that overwrites heap[i] before it is saved: heap[j] ends up twice
swapClobbers(h, i, j) == [h EXCEPT ![i + 1] = h[j + 1]]

swap(h, i, j) == [h EXCEPT ![i + 1] = h[j + 1], ![j + 1] = h[i + 1]]

\* What one part of insert leaves: the array, the index to sift from, and
\* where control is: "up" / "down" (sifting goes on), "return", "throw".
Ctl(h, i, at) == [heap |-> h, i |-> i, at |-> at]

\* insert with the eviction test turned round: a lower score replaces the root
insertKeepsLow(h, size, e) ==
  IF Len(h) < size
    THEN Ctl(Append(h, e), Len(h), "up")
    ELSE IF IsNull(e) \/ Len(h) = 0 \/ IsNull(At(h, 0))
      THEN Ctl(h, 0, "throw")
      ELSE IF e.score < At(h, 0).score
        THEN Ctl([h EXCEPT ![1] = e], 0, "down")
        ELSE Ctl(h, 0, "return")

\* insert with <= in the length test: it pushes onto a full heap
insertPushesWhenFull(h, size, e) ==
  IF Len(h) <= size
    THEN Ctl(Append(h, e), Len(h), "up")
    ELSE IF IsNull(e) \/ Len(h) = 0 \/ IsNull(At(h, 0))
      THEN Ctl(h, 0, "throw")
      ELSE IF e.score > At(h, 0).score
        THEN Ctl([h EXCEPT ![1] = e], 0, "down")
        ELSE Ctl(h, 0, "return")

\* insert with >= in the eviction test: a tie with the minimum replaces the root
insertTieReplaces(h, size, e) ==
  IF Len(h) < size
    THEN Ctl(Append(h, e), Len(h), "up")
    ELSE IF IsNull(e) \/ Len(h) = 0 \/ IsNull(At(h, 0))
      THEN Ctl(h, 0, "throw")
      ELSE IF e.score >= At(h, 0).score
        THEN Ctl([h EXCEPT ![1] = e], 0, "down")
        ELSE Ctl(h, 0, "return")

\* insert(score), up to the call of heapifyUp / heapifyDown
insert(h, size, e) ==
  IF Len(h) < size
    THEN Ctl(Append(h, e), Len(h), "up")
    ELSE IF IsNull(e) \/ Len(h) = 0 \/ IsNull(At(h, 0))
      THEN Ctl(h, 0, "throw")
      ELSE IF e.score > At(h, 0).score
        THEN Ctl([h EXCEPT ![1] = e], 0, "down")
        ELSE Ctl(h, 0, "return")

\* heapifyUp(i): one test of the while condition and, if it holds, one body
heapifyUp(h, i) ==
  IF i > 0
    THEN IF IsNull(At(h, parent(i))) \/ IsNull(At(h, i))
      THEN Ctl(h, i, "throw")
      ELSE IF At(h, parent(i)).score > At(h, i).score
        THEN Ctl(swap(h, parent(i), i), parent(i), "up")
        ELSE Ctl(h, i, "return")
    ELSE Ctl(h, i, "return")

\* heapifyDown that never looks at the right child
heapifyDownLeftOnly(h, i) ==
  LET left == leftChild(i)
      throwsLeft == left < Len(h) /\ (IsNull(At(h, left)) \/ IsNull(At(h, i)))
      minIndex == IF left < Len(h) /\ ~throwsLeft /\ At(h, left).score < At(h, i).score
                    THEN left ELSE i
  IN  IF throwsLeft
        THEN Ctl(h, i, "throw")
        ELSE IF i # minIndex
          THEN Ctl(swap(h, i, minIndex), minIndex, "down")
          ELSE Ctl(h, i, "return")

\* heapifyDown without the tests left < length and right < length: reading
\* .score of a missing element raises
heapifyDownNoBounds(h, i) ==
  LET left == leftChild(i)
      right == rightChild(i)
  IN  IF left >= Len(h) \/ right >= Len(h)
           \/ IsNull(At(h, left)) \/ IsNull(At(h, right)) \/ IsNull(At(h, i))
        THEN Ctl(h, i, "throw")
        ELSE LET min1 == IF At(h, left).score < At(h, i).score THEN left ELSE i
                 minIndex == IF At(h, right).score < At(h, min1).score THEN right ELSE min1
             IN  IF i # minIndex
                   THEN Ctl(swap(h, i, minIndex), minIndex, "down")
                   ELSE Ctl(h, i, "return")

\* heapifyDown(i): one invocation, up to its recursive call
heapifyDown(h, i) ==
  LET left == leftChild(i)
      right == rightChild(i)
      throwsLeft == left < Len(h) /\ (IsNull(At(h, left)) \/ IsNull(At(h, i)))
      min1 == IF left < Len(h) /\ ~throwsLeft /\ At(h, left).score < At(h, i).score
                THEN left ELSE i
      throwsRight == right < Len(h) /\ (IsNull(At(h, right)) \/ IsNull(At(h, min1)))
      minIndex == IF right < Len(h) /\ ~throwsRight
                     /\ At(h, right).score < At(h, min1).score
                    THEN right ELSE min1
  IN  IF throwsLeft \/ throwsRight
        THEN Ctl(h, i, "throw")
        ELSE IF i # minIndex
          THEN Ctl(swap(h, i, minIndex), minIndex, "down")
          ELSE Ctl(h, i, "return")

\* insert(score) run to its end: the sifting that follows r
RECURSIVE Sift(_)
Sift(r) ==
  IF r.at = "up" THEN Sift(heapifyUp(r.heap, r.i))
  ELSE IF r.at = "down" THEN Sift(heapifyDown(r.heap, r.i))
  ELSE r

\* the array of a store built by new MinHeap(size) after insert(es[1]), ...,
\* insert(es[n]), each run to its end
RECURSIVE InsertAll(_, _, _)
InsertAll(size, es, n) ==
  IF n = 0 THEN MinHeap(size).heap
  ELSE Sift(insert(InsertAll(size, es, n - 1), size, es[n])).heap

\* loadLeaderboard() of a new process on file f with new MinHeap(size): the
\* elements of the parsed array inserted in file order, up to the first
\* insert that throws (the catch ends the replay); n elements done
RECURSIVE Replay(_, _, _)
Replay(size, f, n) ==
  IF f.kind # "array" \/ n = 0
    THEN [heap |-> MinHeap(size).heap, threw |-> f.kind \in {"unreadable", "invalid"}]
    ELSE LET p == Replay(size, f, n - 1)
             r == Sift(insert(p.heap, size, FromJson(f.data[n], n)))
         IN  IF p.threw THEN p
             ELSE [heap |-> r.heap, threw |-> r.at = "throw"]

\* Array.prototype.sort with (a, b) => b.score - a.score: a stable sort,
\* descending on score; built by inserting each element after the elements
\* that are not smaller.
RECURSIVE SortDesc(_)
SortDesc(s) ==
  IF Len(s) = 0 THEN <<>>
  ELSE LET front == SortDesc(SubSeq(s, 1, Len(s) - 1))
           x == s[Len(s)]
           n == Cardinality({m \in 1..Len(front) : front[m].score >= x.score})
       IN  SubSeq(front, 1, n) \o <<x>> \o SubSeq(front, n + 1, Len(front))

\* getSortedScores that sorts this.heap itself, without the copy [...this.heap]
getSortedScoresInPlace(h) ==
  IF Len(h) >= 2 /\ \E n \in 1..Len(h) : IsNull(h[n])
    THEN [heap |-> h, ret |-> <<>>, threw |-> TRUE]
    ELSE [heap |-> SortDesc(h), ret |-> SortDesc(h), threw |-> FALSE]

\* getSortedScores that takes the elements out of this.heap to sort them
getSortedScoresDrains(h) ==
  IF Len(h) >= 2 /\ \E n \in 1..Len(h) : IsNull(h[n])
    THEN [heap |-> h, ret |-> <<>>, threw |-> TRUE]
    ELSE [heap |-> <<>>, ret |-> SortDesc(h), threw |-> FALSE]

\* getSortedScores(): the array after the call, what is returned, and whether
\* the comparator raised (it reads .score of every element once there are two)
getSortedScores(h) ==
  IF Len(h) >= 2 /\ \E n \in 1..Len(h) : IsNull(h[n])
    THEN [heap |-> h, ret |-> <<>>, threw |-> TRUE]
    ELSE [heap |-> h, ret |-> SortDesc(h), threw |-> FALSE]

---------------------------------------------------------------------------
(* Persistence *)

\* saveLeaderboard that writes this.heap as it lies, not getSortedScores()
saveLeaderboardHeapOrder(h, f, ok) ==
  IF ~ok
    THEN [heap |-> h, file |-> f, saved |-> "failed"]
    ELSE [heap |-> h, file |-> FileArray(Stringify(h)), saved |-> "ok"]

\* saveLeaderboard(): writeFileSync of the JSON of getSortedScores(), inside
\* try / catch; ok says whether the write itself succeeds
saveLeaderboard(h, f, ok) ==
  LET g == getSortedScores(h)
  IN  IF g.threw \/ ~ok
        THEN [heap |-> g.heap, file |-> f, saved |-> "failed"]
        ELSE [heap |-> g.heap, file |-> FileArray(Stringify(g.ret)), saved |-> "ok"]

\* the outcomes of a write that the bound on failures allows
WriteOutcomes == IF fails < MaxFails THEN {TRUE, FALSE} ELSE {TRUE}

---------------------------------------------------------------------------
(* The process *)

Init ==
  /\ \E size \in 1..MaxCap :
       /\ heap = MinHeap(size).heap
       /\ maxSize = MinHeap(size).maxSize
       /\ maxSize0 = size
  /\ file \in StartFiles
  /\ pc = "start"
  /\ caller = "none"
  /\ idx = 0
  /\ data = <<>>
  /\ k = 0
  /\ resp = NoResponse
  /\ inserted = <<>>
  /\ present = <<>>
  /\ lastIns = NoInsert
  /\ lastSave = "none"
  /\ cleared = FALSE
  /\ fails = 0
  /\ calls = 0

\* Control after a part of insert left r, for the caller who; li is the
\* record of this insert.
Resume(r, who, li) ==
  /\ heap' = r.heap
  /\ idx' = IF r.at \in {"up", "down"} THEN r.i ELSE 0
  /\ pc' = CASE r.at \in {"up", "down"} -> r.at
             [] r.at = "return" -> IF who = "load" THEN "replay" ELSE "added"
             [] OTHER -> "idle"    \* caught: by loadLeaderboard, or by the route
  /\ caller' = IF r.at \in {"up", "down"} THEN who ELSE "none"
  /\ k' = IF r.at = "return" /\ who = "load" THEN k + 1 ELSE k
  /\ resp' = IF who = "add"
               THEN IF r.at = "throw" THEN Response("add", 500, <<>>, 0) ELSE NoResponse
               ELSE resp
  /\ lastIns' = [li EXCEPT !.status =
                   CASE r.at \in {"up", "down"} -> "running"
                     [] r.at = "return" -> "returned"
                     [] OTHER -> "threw",
                              !.swaps =
                   IF pc \in {"up", "down"} /\ r.heap # heap THEN @ + 1 ELSE @]

\* a call leaderboard.insert(e)
Call(e, who) ==
  /\ inserted' = Append(inserted, e)
  /\ present' = Append(present, {heap[n].seq : n \in 1..Len(heap)})
  /\ calls' = calls + 1
  /\ Resume(insert(heap, maxSize, e), who, [pre |-> heap, arg |-> e, status |-> "running", swaps |-> 0])

\* loadLeaderboard(), up to forEach
loadLeaderboard ==
  /\ pc = "start"
  /\ IF file.kind = "array"
       THEN data' = file.data /\ pc' = "replay"
       ELSE data' = <<>> /\ pc' = "idle"
  /\ UNCHANGED <<heap, maxSize, file, caller, idx, k, resp, inserted, present,
                 lastIns, lastSave, cleared, fails, calls, maxSize0>>

\* data.forEach(entry => leaderboard.insert(entry)): the next element, or the
\* end, after which the routes are set up and the server listens
forEach ==
  /\ pc = "replay"
  /\ IF k < Len(data)
       THEN /\ Call(FromJson(data[k + 1], Len(inserted) + 1), "load")
            /\ UNCHANGED <<maxSize, file, data, lastSave, cleared, fails, maxSize0>>
       ELSE /\ pc' = "idle"
            /\ UNCHANGED <<heap, maxSize, file, caller, idx, data, k, resp, inserted, present,
                           lastIns, lastSave, cleared, fails, calls, maxSize0>>

\* the while loop of heapifyUp, one round
HeapifyUpStep ==
  /\ pc = "up"
  /\ Resume(heapifyUp(heap, idx), caller, lastIns)
  /\ UNCHANGED <<maxSize, file, data, inserted, present, lastSave, cleared, fails, calls, maxSize0>>

\* heapifyDown, one invocation
HeapifyDownStep ==
  /\ pc = "down"
  /\ Resume(heapifyDown(heap, idx), caller, lastIns)
  /\ UNCHANGED <<maxSize, file, data, inserted, present, lastSave, cleared, fails, calls, maxSize0>>

\* !name
Falsy(b) ==
  \/ b.nameT = "undefined"
  \/ b.nameT = "string" /\ b.name = ""
  \/ b.nameT = "number" /\ b.name = "0"

\* the two tests of app.post('/add_score') that answer 400
Rejected(b) ==
  \/ Falsy(b) \/ b.scoreT # "number"
  \/ b.score < MinScore \/ b.score > MaxScore

\* app.post('/add_score'), up to the call of insert
AddScore(b) ==
  /\ pc = "idle"
  /\ IF Rejected(b)
       THEN /\ resp' = Response("add", 400, <<>>, 0)
            /\ UNCHANGED <<heap, maxSize, file, pc, caller, idx, data, k, inserted, present,
                           lastIns, lastSave, cleared, fails, calls, maxSize0>>
       ELSE /\ calls < MaxInserts
            /\ Call(Obj(b.name, b.nameT, b.score, Len(inserted) + 1), "add")
            /\ lastSave' = "none"
            /\ UNCHANGED <<maxSize, file, data, cleared, fails, maxSize0>>

\* updatedScores.findIndex(s => s.name === name && s.score === score) + 1
\* findIndex(...) without the + 1
PositionZeroBased(scores, e) ==
  LET hits == {n \in 1..Len(scores) :
                 /\ scores[n].name = e.name
                 /\ scores[n].nameT = e.nameT
                 /\ scores[n].score = e.score}
  IN  IF hits = {} THEN 0 - 1 ELSE (CHOOSE n \in hits : \A m \in hits : n <= m) - 1

Position(scores, e) ==
  LET hits == {n \in 1..Len(scores) :
                 /\ scores[n].name = e.name
                 /\ scores[n].nameT = e.nameT
                 /\ scores[n].score = e.score}
  IN  IF hits = {} THEN 0 ELSE CHOOSE n \in hits : \A m \in hits : n <= m

\* add_score with a saveLeaderboard that has no try / catch: a failed write
\* reaches the catch of the route, which answers 500
AddScoreFinishSaveThrows ==
  /\ pc = "added"
  /\ LET g == getSortedScores(heap)
     IN  IF g.threw
           THEN /\ heap' = g.heap
                /\ resp' = Response("add", 500, <<>>, 0)
                /\ UNCHANGED <<file, lastSave, fails>>
           ELSE \E ok \in WriteOutcomes :
                  LET s == saveLeaderboard(g.heap, file, ok)
                  IN  /\ heap' = s.heap
                      /\ file' = s.file
                      /\ lastSave' = s.saved
                      /\ fails' = IF ok THEN fails ELSE fails + 1
                      /\ resp' = IF ok
                                   THEN Response("add", 200, g.ret, Position(g.ret, lastIns.arg))
                                   ELSE Response("add", 500, <<>>, 0)
  /\ pc' = "idle"
  /\ UNCHANGED <<maxSize, caller, idx, data, k, inserted, present, lastIns, cleared, calls, maxSize0>>

\* app.post('/add_score'), after insert has returned
AddScoreFinish ==
  /\ pc = "added"
  /\ LET g == getSortedScores(heap)
     IN  IF g.threw
           THEN /\ heap' = g.heap
                /\ resp' = Response("add", 500, <<>>, 0)
                /\ UNCHANGED <<file, lastSave, fails>>
           ELSE \E ok \in WriteOutcomes :
                  LET s == saveLeaderboard(g.heap, file, ok)
                  IN  /\ heap' = s.heap
                      /\ file' = s.file
                      /\ lastSave' = s.saved
                      /\ fails' = IF ok THEN fails ELSE fails + 1
                      /\ resp' = Response("add", 200, g.ret, Position(g.ret, lastIns.arg))
  /\ pc' = "idle"
  /\ UNCHANGED <<maxSize, caller, idx, data, k, inserted, present, lastIns, cleared, calls, maxSize0>>

\* a get_leaderboard that also calls saveLeaderboard()
GetLeaderboardSaves ==
  /\ pc = "idle"
  /\ LET g == getSortedScores(heap)
         s == saveLeaderboard(g.heap, file, TRUE)
     IN  /\ heap' = s.heap
         /\ file' = s.file
         /\ resp' = IF g.threw THEN Response("get", 500, <<>>, 0)
                               ELSE Response("get", 200, g.ret, 0)
  /\ UNCHANGED <<maxSize, pc, caller, idx, data, k, inserted, present,
                 lastIns, lastSave, cleared, fails, calls, maxSize0>>

\* app.get('/get_leaderboard')
GetLeaderboard ==
  /\ pc = "idle"
  /\ LET g == getSortedScores(heap)
     IN  /\ heap' = g.heap
         /\ resp' = IF g.threw THEN Response("get", 500, <<>>, 0)
                               ELSE Response("get", 200, g.ret, 0)
  /\ UNCHANGED <<maxSize, file, pc, caller, idx, data, k, inserted, present,
                 lastIns, lastSave, cleared, fails, calls, maxSize0>>

\* a clear that leaves the array alone
clearNothing(h) == h

\* leaderboard.heap = []
clear(h) == <<>>

\* app.post('/clear_leaderboard')
ClearLeaderboard ==
  /\ pc = "idle"
  /\ \E ok \in WriteOutcomes :
       LET s == saveLeaderboard(clear(heap), file, ok)
       IN  /\ heap' = s.heap
           /\ file' = s.file
           /\ lastSave' = s.saved
           /\ fails' = IF ok THEN fails ELSE fails + 1
  /\ resp' = Response("clear", 200, <<>>, 0)
  /\ inserted' = <<>>
  /\ present' = <<>>
  /\ lastIns' = NoInsert
  /\ cleared' = TRUE
  /\ UNCHANGED <<maxSize, pc, caller, idx, data, k, calls, maxSize0>>

Next ==
  \/ loadLeaderboard
  \/ forEach
  \/ HeapifyUpStep
  \/ HeapifyDownStep
  \/ \E b \in Bodies : AddScore(b)
  \/ AddScoreFinish
  \/ GetLeaderboard
  \/ ClearLeaderboard

Spec == Init /\ [][Next]_vars

---------------------------------------------------------------------------
(* Properties *)

\* no insert is running: before, between and after the calls
Between == pc \in {"start", "replay", "added", "idle"}

\* every value passed to insert since construction / the last clear is a
\* ScoreEntry { name, score: number }
WellTyped == \A n \in 1..Len(inserted) : inserted[n].t = "object"

Min(a, b) == IF a <= b THEN a ELSE b

Descending(s) == \A n \in 1..Len(s) - 1 : s[n].score >= s[n + 1].score

\* the positions of the m highest scores of es (any choice among ties)
TopIdx(es, m) ==
  CHOOSE S \in SUBSET (1..Len(es)) :
    /\ Cardinality(S) = m
    /\ \A a \in S : \A b \in (1..Len(es)) \ S : es[a].score >= es[b].score

\* C1: after N inserts of score entries into an empty store of capacity C,
\* getSortedScores() has min(C, N) elements, its scores are, with
\* multiplicity, the min(C, N) highest scores inserted, and they do not
\* increase along the sequence.
C1_TopN ==
  (Between /\ WellTyped) =>
    LET g == getSortedScores(heap)
        s == g.ret
        m == Min(maxSize, Len(inserted))
        T == TopIdx(inserted, m)
        values == {inserted[n].score : n \in 1..Len(inserted)}
                    \cup {s[n].score : n \in 1..Len(s)}
    IN  /\ ~g.threw
        /\ Len(s) = m
        /\ \A v \in values :
             Cardinality({n \in 1..Len(s) : s[n].score = v})
               = Cardinality({a \in T : inserted[a].score = v})
        /\ Descending(s)

\* C1's case: more inserts than the capacity, with distinct scores, and an
\* eviction that kept a higher score than one inserted
C1_Witness ==
  /\ Between /\ WellTyped
  /\ maxSize >= 2
  /\ Len(inserted) > maxSize
  /\ Len(heap) = maxSize
  /\ \E a, b \in 1..Len(inserted) : inserted[a].score < inserted[b].score
  /\ \E a \in 1..Len(inserted) : \A n \in 1..Len(heap) : heap[n].seq # a

HeapProperty(h) ==
  \A i \in 0..Len(h) - 1 :
    \A c \in {leftChild(i), rightChild(i)} :
      c < Len(h) => At(h, i).score <= At(h, c).score

\* C2: whenever no insert is running (after each completed insert, after a
\* clear), every element's score is at most its children's, and heap[0]
\* holds a minimum score of the store.
C2_HeapProperty ==
  (Between /\ WellTyped) =>
    /\ HeapProperty(heap)
    /\ \A n \in 1..Len(heap) : At(heap, 0).score <= heap[n].score

\* C2's case: a full heap of three whose root was replaced and sifted down
C2_Witness ==
  /\ Between /\ WellTyped
  /\ lastIns.status = "returned"
  /\ Len(lastIns.pre) = 3 /\ Len(heap) = 3
  /\ heap # lastIns.pre
  /\ At(heap, 0).seq # lastIns.arg.seq

\* C3: the heap never holds more than maxSize elements, in any state,
\* those inside an insert included.
C3_SizeBound == Len(heap) <= maxSize

\* C3's case: inside an insert on a full heap, after a clear, with the root
\* replaced and the sifting not finished
C3_Witness ==
  /\ pc = "down"
  /\ cleared
  /\ maxSize >= 2
  /\ Len(heap) = maxSize
  /\ heap # lastIns.pre

\* C4: an insert into a full store of an entry whose score is at most
\* heap[0].score leaves the array as it was and does not store the entry.
C4_TieDiscarded ==
  ( /\ lastIns.status = "returned"
    /\ Len(lastIns.pre) = maxSize
    /\ ~IsNull(lastIns.arg) /\ ~IsNull(At(lastIns.pre, 0))
    /\ lastIns.arg.score <= At(lastIns.pre, 0).score )
  => /\ heap = lastIns.pre
     /\ \A n \in 1..Len(heap) : heap[n].seq # lastIns.arg.seq

\* C4's case: a full store of two and an insert whose score equals the minimum
C4_Witness ==
  /\ lastIns.status = "returned"
  /\ Len(lastIns.pre) = maxSize
  /\ maxSize >= 2
  /\ ~IsNull(lastIns.arg) /\ ~IsNull(At(lastIns.pre, 0))
  /\ lastIns.arg.score = At(lastIns.pre, 0).score
  /\ heap = lastIns.pre

InHeap(id) == \E n \in 1..Len(heap) : heap[n].seq = id

\* C5, as claimed: of two entries with equal scores inserted one after the
\* other (no clear between), the later is in the store only if the earlier
\* is in the store too.
C5_EarlierRetained ==
  (Between /\ WellTyped) =>
    \A a, b \in 1..Len(inserted) :
      (a < b /\ inserted[a].score = inserted[b].score /\ InHeap(b)) => InHeap(a)

\* C5, amended: of two entries with equal scores, the later is in the store
\* only if the earlier was in the store when the later was inserted: a
\* later entry never gets in after an equal earlier one was refused or
\* evicted.  (Once both are stored, an eviction may take either.)
C5_EarlierPresentAtInsert ==
  (Between /\ WellTyped) =>
    \A a, b \in 1..Len(inserted) :
      (a < b /\ inserted[a].score = inserted[b].score /\ InHeap(b)) => a \in present[b]

\* C5's case: two stored entries with equal scores, then an eviction that
\* removed the earlier and kept the later
C5_Witness ==
  /\ Between /\ WellTyped
  /\ \E a, b \in 1..Len(inserted) :
       /\ a < b /\ inserted[a].score = inserted[b].score
       /\ InHeap(b) /\ ~InHeap(a)
       /\ a \in present[b]

\* C6: once clear_leaderboard has run, maxSize is the constructor's, the
\* array is the one a new MinHeap(maxSize) has after the inserts made since
\* the clear, and with no insert since the clear getSortedScores() is empty.
C6_ClearResets ==
  (cleared /\ Between) =>
    /\ maxSize = maxSize0
    /\ heap = InsertAll(maxSize0, inserted, Len(inserted))
    /\ (inserted = <<>> =>
          ~getSortedScores(heap).threw /\ getSortedScores(heap).ret = <<>>)

\* C6's case: a store that held entries, was cleared, and was filled and
\* overfilled again
C6_Witness ==
  /\ cleared /\ Between
  /\ calls > Len(inserted)
  /\ Len(inserted) >= 2
  /\ Len(heap) < Len(inserted)

\* s holds each element of h once, and nothing else
Permutation(s, h) ==
  /\ Len(s) = Len(h)
  /\ \A n \in 1..Len(h) : Cardinality({m \in 1..Len(s) : s[m] = h[n]}) = 1

\* C7: a step that calls getSortedScores() (get_leaderboard, and add_score
\* after its insert) leaves the array and maxSize as they were, and the
\* sequence returned holds each element of the store once, scores descending.
C7_ReadOnly ==
  [][ ( \/ pc = "idle" /\ pc' = "idle" /\ resp'.op = "get"
        \/ pc = "added" )
      => /\ heap' = heap
         /\ maxSize' = maxSize
         /\ resp'.status = 200 =>
              Permutation(resp'.scores, heap) /\ Descending(resp'.scores) ]_vars

\* C7's case: a read of a heap of three that is not in sorted order
C7_Witness ==
  /\ pc = "idle"
  /\ resp.op = "get" /\ resp.status = 200
  /\ Len(heap) = 3
  /\ resp.scores # heap
  /\ Permutation(resp.scores, heap)

\* C8: after an add_score that passed validation, and after a
\* clear_leaderboard, saveLeaderboard has run, and whenever its write
\* succeeded the file is the JSON array of getSortedScores() of the store.
C8_Persisted ==
  pc = "idle" =>
    /\ (resp.op \in {"add", "clear"} /\ resp.status = 200) => lastSave \in {"ok", "failed"}
    /\ lastSave = "ok" =>
         /\ ~getSortedScores(heap).threw
         /\ file = FileArray(Stringify(getSortedScores(heap).ret))

\* C8's case: an add_score whose write replaced a file left stale by a failed
\* write, with a heap that is not in sorted order
C8_Witness ==
  /\ pc = "idle"
  /\ resp.op = "add" /\ resp.status = 200
  /\ lastSave = "ok"
  /\ fails = 1
  /\ Len(heap) >= 2
  /\ getSortedScores(heap).ret # heap
  /\ file = FileArray(Stringify(getSortedScores(heap).ret))

\* a request is being handled or the server waits for one
Serving == pc \in {"idle", "added"} \/ caller = "add"

\* C9: when the file parses as an array, every element has been passed to
\* insert, and each insert has returned, before a request is handled.
C9_ReplayComplete == Serving => k = Len(data)

\* the validation the interface asks for: name a non-empty string, score a
\* number in [0, 100]
ValidEntry(b) ==
  /\ b.nameT = "string" /\ b.name # ""
  /\ b.scoreT = "number" /\ b.score >= MinScore /\ b.score <= MaxScore

\* C10: add_score calls insert only for a valid body; for any other it
\* answers 400 and leaves the store and the file as they were.
C10_ValidatedInsert ==
  [][ \A b \in Bodies :
        (AddScore(b) /\ ~ValidEntry(b)) =>
          /\ resp'.status = 400
          /\ inserted' = inserted
          /\ heap' = heap
          /\ file' = file ]_vars

\* the server is about to handle its first request
ServingStarts == pc = "idle" /\ resp = NoResponse

\* loadLeaderboard did not succeed: the read or the parse raised, or an
\* insert of the replay raised
LoadFailed == file.kind \in {"unreadable", "invalid"} \/ k < Len(data)

\* C11: when the load failed, the server starts with an empty store.
C11_FailedLoadEmpty == (ServingStarts /\ LoadFailed) => Len(heap) = 0

\* the file holds what saveLeaderboard would write now
FileCurrent ==
  /\ ~getSortedScores(heap).threw
  /\ file = FileArray(Stringify(getSortedScores(heap).ret))

\* C12: when the write of an add_score fails, the store is what the insert
\* made of it (within the size bound, with the heap property), the answer
\* is 200, the file is as it was, and the server waits for the next request.
C12_FailedWriteHarmless ==
  [][ (pc = "added" /\ lastSave' = "failed")
      => /\ heap' = Sift(insert(lastIns.pre, maxSize, lastIns.arg)).heap
         /\ Len(heap') <= maxSize
         /\ WellTyped => HeapProperty(heap')
         /\ resp'.op = "add" /\ resp'.status = 200
         /\ file' = file
         /\ pc' = "idle" ]_vars

\* C12's case: an add_score that evicted the minimum of a full store, was
\* answered 200, and whose write failed, leaving the file stale
C12_Witness ==
  /\ pc = "idle"
  /\ resp.op = "add" /\ resp.status = 200
  /\ lastSave = "failed"
  /\ WellTyped
  /\ Len(lastIns.pre) = maxSize
  /\ heap # lastIns.pre
  /\ ~FileCurrent

\* C13: get_leaderboard answers with getSortedScores() (500 when it raises)
\* and leaves the file, the array and the record of the last save as they
\* were.
C13_ReadDoesNotPersist ==
  [][ (pc = "idle" /\ resp'.op = "get")
      => /\ file' = file
         /\ heap' = heap
         /\ lastSave' = lastSave /\ fails' = fails
         /\ resp' = IF getSortedScores(heap).threw
                      THEN Response("get", 500, <<>>, 0)
                      ELSE Response("get", 200, getSortedScores(heap).ret, 0) ]_vars

\* C13's case: a read answered 200 while the file is stale after a failed write
C13_Witness ==
  /\ pc = "idle"
  /\ resp.op = "get" /\ resp.status = 200
  /\ lastSave = "failed"
  /\ Len(heap) >= 1
  /\ ~FileCurrent

\* C14: a call of getSortedScores() after a get_leaderboard, with no insert
\* or clear between, returns the sequence that get_leaderboard returned:
\* the same elements in the same order, ties included.
C14_IdempotentRead ==
  (pc = "idle" /\ resp.op = "get" /\ resp.status = 200) =>
    /\ ~getSortedScores(heap).threw
    /\ getSortedScores(heap).ret = resp.scores

\* C14's case: a read that returned three entries, two of them with equal
\* scores, from a heap that lies in another order
C14_Witness ==
  /\ pc = "idle"
  /\ resp.op = "get" /\ resp.status = 200
  /\ Len(resp.scores) = 3
  /\ resp.scores # heap
  /\ \E n \in 1..2 : resp.scores[n].score = resp.scores[n + 1].score
  /\ getSortedScores(heap).ret = resp.scores

\* the level of index i in the tree (the root is at level 0)
RECURSIVE Depth(_)
Depth(i) == IF i <= 0 THEN 0 ELSE 1 + Depth(parent(i))

\* the height of a heap of n elements
Height(n) == IF n = 0 THEN 0 ELSE Depth(n - 1)

\* C15: an insert of a score entry into a store of score entries raises
\* nothing; it makes at most as many swaps as the heap is high, each one
\* moving the sift index one level up (heapifyUp) or one level down
\* (heapifyDown), so it ends.
C15_InsertTotal ==
  WellTyped =>
    /\ lastIns.status # "threw"
    /\ lastIns.swaps <= Height(Len(heap))
    /\ pc = "up" => /\ idx >= 0 /\ idx < Len(heap)
                    /\ Depth(idx) = Depth(Len(lastIns.pre)) - lastIns.swaps
    /\ pc = "down" => /\ idx >= 0 /\ idx < Len(heap)
                      /\ Depth(idx) = lastIns.swaps

\* C15's case: the fourth entry of a heap was pushed at the lowest level and
\* has reached the root after as many swaps as the heap is high
C15_Witness ==
  /\ WellTyped
  /\ lastIns.status = "returned"
  /\ Len(lastIns.pre) = 3 /\ Len(heap) = 4
  /\ lastIns.swaps = Height(Len(heap))
  /\ lastIns.swaps = 2
  /\ At(heap, 0) = lastIns.arg

Elements(h) == {h[n] : n \in 1..Len(h)}

\* an insert into a full store with a score above the minimum has returned
Evicted ==
  /\ lastIns.status = "returned"
  /\ Len(lastIns.pre) = maxSize
  /\ ~IsNull(lastIns.arg) /\ ~IsNull(At(lastIns.pre, 0))
  /\ lastIns.arg.score > At(lastIns.pre, 0).score

\* C16: after an insert into a full store with a score above heap[0].score
\* the store holds the elements it held, without the old heap[0] and with
\* the new entry, each once, and its length is still maxSize.
C16_EvictsRootOnly ==
  Evicted =>
    /\ Len(heap) = maxSize
    /\ Elements(heap) = (Elements(lastIns.pre) \ {At(lastIns.pre, 0)}) \cup {lastIns.arg}
    /\ Cardinality(Elements(heap)) = maxSize

\* C16's case: a full store of three whose new entry was sifted away from
\* the root
C16_Witness ==
  /\ Evicted
  /\ maxSize = 3
  /\ At(heap, 0) # lastIns.arg
  /\ lastIns.swaps >= 1

\* the step heapifyUp / heapifyDown would make next is a swap
SiftPending ==
  \/ /\ pc = "up" /\ idx > 0
     /\ At(heap, parent(idx)).score > At(heap, idx).score
  \/ /\ pc = "down"
     /\ \E c \in {leftChild(idx), rightChild(idx)} :
          c < Len(heap) /\ At(heap, c).score < At(heap, idx).score

\* C17: the heap property fails in states inside an insert, and in exactly
\* those where the sifting has a swap left to make: after the push or the
\* root replacement and between the swaps.
C17_BrokenInsideInsert ==
  WellTyped => (~HeapProperty(heap) <=> SiftPending)

\* C17's case: inside an insert, after a first swap, the array still breaks
\* the heap property
C17_Witness ==
  /\ WellTyped
  /\ pc \in {"up", "down"}
  /\ lastIns.swaps >= 1
  /\ ~HeapProperty(heap)

\* the number of elements of s whose JSON text is j
Count(s, j) == Cardinality({n \in 1..Len(s) : JsonOf(s[n]) = j})

\* what a process restarted on the present file would hold after its load
Restarted == Replay(maxSize, file, Len(file.data))

\* C18: when saveLeaderboard has written the file from the present store, a
\* process restarted on that file holds, after loadLeaderboard, a store
\* whose getSortedScores() has the same entries as many times each, and the
\* same sequence of scores, as getSortedScores() of the present store.
C18_RoundTrip ==
  (pc = "idle" /\ lastSave = "ok") =>
    LET s == getSortedScores(heap)
        t == getSortedScores(Restarted.heap)
    IN  /\ ~s.threw /\ ~Restarted.threw /\ ~t.threw
        /\ Len(t.ret) = Len(s.ret)
        /\ \A n \in 1..Len(s.ret) :
             /\ t.ret[n].score = s.ret[n].score
             /\ Count(t.ret, JsonOf(s.ret[n])) = Count(s.ret, JsonOf(s.ret[n]))

\* C18's case: a file written from the store whose reload gives the same
\* scores in the same order, with two entries of equal score exchanged
C18_Witness ==
  /\ pc = "idle" /\ lastSave = "ok"
  /\ Len(heap) >= 3
  /\ ~Restarted.threw
  /\ Stringify(getSortedScores(Restarted.heap).ret)
       # Stringify(getSortedScores(heap).ret)

\* a step of clear_leaderboard
ClearStep == pc = "idle" /\ resp'.op = "clear"

\* the minimum of the store as the callers of insert last saw it: during a
\* heapifyDown, that of the array the insert was called on
SeenMin == IF pc = "down" THEN At(lastIns.pre, 0).score ELSE At(heap, 0).score

\* C19: on every step that is not a clear, heap.length does not decrease
\* and, when it equals maxSize, stays equal to maxSize; and in a store of
\* score entries at capacity heap[0].score does not go below the minimum
\* the store had between the calls, so from one insert to the next it never
\* decreases.
C19_Monotone ==
  [][ ~ClearStep
      => /\ Len(heap') >= Len(heap)
         /\ Len(heap) = maxSize => Len(heap') = maxSize
         /\ (WellTyped /\ Len(heap) = maxSize /\ pc # "up")
              => At(heap', 0).score >= SeenMin ]_vars

\* C19's case: an insert into a full store of at least two entries has
\* returned, and the minimum is higher than it was
C19_Witness ==
  /\ WellTyped
  /\ lastIns.status = "returned"
  /\ maxSize >= 2
  /\ Len(lastIns.pre) = maxSize /\ Len(heap) = maxSize
  /\ At(heap, 0).score > At(lastIns.pre, 0).score

\* x has the name and the score of the submitted entry
Matches(x) ==
  /\ x.name = lastIns.arg.name
  /\ x.nameT = lastIns.arg.nameT
  /\ x.score = lastIns.arg.score

\* C20: the position of a 200 answer of add_score is 0 exactly when no
\* stored entry has the submitted name and score, which happens only when
\* the submission was discarded at capacity; otherwise it is the 1-based
\* index of the first such entry in the returned list, between 1 and the
\* number of stored entries.
C20_Position ==
  (pc = "idle" /\ resp.op = "add" /\ resp.status = 200) =>
    /\ Len(resp.scores) = Len(heap)
    /\ resp.position \in 0..Len(heap)
    /\ resp.position = 0 <=> ~\E n \in 1..Len(heap) : Matches(heap[n])
    /\ resp.position = 0 =>
         Len(lastIns.pre) = maxSize /\ ~InHeap(lastIns.arg.seq)
    /\ resp.position > 0 =>
         /\ Matches(resp.scores[resp.position])
         /\ \A m \in 1..(resp.position - 1) : ~Matches(resp.scores[m])

\* C20's case: the submission was discarded at capacity, and the position
\* answered is that of an equal entry stored before, behind another entry
C20_Witness ==
  /\ pc = "idle" /\ resp.op = "add" /\ resp.status = 200
  /\ ~InHeap(lastIns.arg.seq)
  /\ resp.position >= 2

====
